---- MODULE Spec2Model ----
(***************************************************************************)
(* Model of the Full Course Generator API (src/main.py): the skill-level   *)
(* classifier, the video lookup, the fence stripping applied to model      *)
(* replies, the document-domain endpoint and the two course endpoints      *)
(* (/generate-course, sequential; /generate-question, asyncio.gather).     *)
(*                                                                         *)
(* Strings are sequences of tokens: one token per character, except that   *)
(* the four letters json are one token and the backtick is written BT.     *)
(* Replies of the external services (the model, the video search, the file *)
(* host) are inputs, drawn from small sets.                                *)
(***************************************************************************)
EXTENDS Integers, Sequences, FiniteSets, TLC

VARIABLES
    endpoint,        \* the handler serving the request
    pc,              \* position of the handler
    status,          \* HTTP status of the response (0: none yet)
    detail,          \* detail of the HTTPException that ends the request
    score,           \* QuizResult.score, in 1/Resolution units
    time_taken,      \* QuizResult.time_taken, in 1/Resolution seconds
    level,           \* value returned by /predict-level
    query,           \* fetch_youtube_video's argument
    transport,       \* what requests.get did for the video search
    video,           \* what fetch_youtube_video gave its caller
    text,            \* a model reply, before cleanup
    cleaned,         \* the reply cleaned once
    recleaned,       \* the cleaned reply cleaned again
    filename,        \* basename of file_url, as its "."-separated parts
    download,        \* status code of the file download
    parser,          \* whether the document library reads the bytes
    content,         \* text extracted from the document
    request_units,   \* CourseRequest.units
    course_units,    \* course_structure["units"]: the stubs, then the result
    i,               \* index of the stub the sequential loop is at
    upc,             \* per stub: position of its unit pipeline
    unit_data,       \* per stub: the unit dict its pipeline is building
    detailed_units,  \* the pipelines' collected results
    calls,           \* per stub: external calls made by its pipeline
    handler_calls, \* model calls made by the handler itself
    trace,           \* per stub: the pipeline steps executed, in order
    structure,       \* what became of the course skeleton reply
    response_units,  \* the units of the course returned with status 200
    course_structure, \* the parsed skeleton's fields other than units
    response_fields, \* the fields other than units returned with status 200
    ready,           \* event loop: tasks scheduled and not yet started
    running          \* event loop: who holds the thread (0: the handler, -1: nobody)

vars == <<endpoint, pc, status, detail, score, time_taken, level, query,
          transport, video, text, cleaned, recleaned, filename, download,
          parser, content, request_units, course_units, i, upc, unit_data,
          detailed_units, calls, handler_calls, trace, structure,
          response_units, course_structure, response_fields, ready, running>>

----------------------------------------------------------------------------
(* Bounds of the model *)

Resolution == 2
MaxTime == 82
MaxLen == 5
MaxStubs == 3
MaxRequestUnits == 2
MaxContent == 2

(* Program constants *)

MaxScore == 9
AdvancedMinScore == 7
AdvancedMaxTime == 80
IntermediateMinScore == 4

----------------------------------------------------------------------------
(* Skill-level classifier *)

predict_user_level_strict(s, t) ==
    IF s >= AdvancedMinScore * Resolution /\ t < AdvancedMaxTime * Resolution
        THEN "Advanced"
    ELSE IF IntermediateMinScore * Resolution <= s /\ s < AdvancedMinScore * Resolution
        THEN "Intermediate"
    ELSE "Beginner"

predict_user_level(s, t) ==
    IF s >= AdvancedMinScore * Resolution /\ t <= AdvancedMaxTime * Resolution
        THEN "Advanced"
    ELSE IF IntermediateMinScore * Resolution <= s /\ s < AdvancedMinScore * Resolution
        THEN "Intermediate"
    ELSE "Beginner"

QuizScores == 0 .. MaxScore * Resolution
QuizTimes == 1 .. MaxTime * Resolution

----------------------------------------------------------------------------
(* Video lookup *)

VideoIds == {"v1", "v2"}
VideoItems == [hasId : {TRUE}, videoId : VideoIds] \cup {[hasId |-> FALSE, videoId |-> "-"]}
ItemLists == {<<>>} \cup {<<a>> : a \in VideoItems} \cup {<<a, b>> : a \in VideoItems, b \in VideoItems}
Bodies == {[json |-> FALSE, hasItems |-> FALSE, items |-> <<>>],
           [json |-> TRUE, hasItems |-> FALSE, items |-> <<>>]}
          \cup [json : {TRUE}, hasItems : {TRUE}, items : ItemLists]
StatusCodes == {200, 204, 404, 500}
NoBody == [json |-> FALSE, hasItems |-> FALSE, items |-> <<>>]
Transports == {[kind |-> "timeout", status |-> 0, body |-> NoBody],
               [kind |-> "connection_error", status |-> 0, body |-> NoBody]}
              \cup [kind : {"response"}, status : StatusCodes, body : Bodies]
Queries == {"q1", "q2"}

WatchUrl(v) == <<"https://www.youtube.com/watch?v=", v>>
NoVideoFound == <<"No relevant video found.">>
FetchTimeout == <<"YouTube fetch timeout.">>
FetchError == <<"Error fetching video.">>
NotFetched == <<>>

Return(v) == [raised |-> FALSE, exc |-> "", value |-> v]
Raise(e) == [raised |-> TRUE, exc |-> e, value |-> <<>>]

(* the body of the try block, lines 85-91 *)
fetch_try(t) ==
    IF t.kind = "timeout" THEN Raise("Timeout")
    ELSE IF t.kind = "connection_error" THEN Raise("ConnectionError")
    ELSE IF t.status >= 400 /\ t.status < 600 THEN Raise("HTTPError")
    ELSE IF ~t.body.json THEN Raise("JSONDecodeError")
    ELSE IF t.body.hasItems /\ Len(t.body.items) > 0
        THEN IF t.body.items[1].hasId
                THEN Return(WatchUrl(t.body.items[1].videoId))
                ELSE Raise("KeyError")
    ELSE Return(NoVideoFound)

(* a lookup whose second handler catches the transport's errors only *)
fetch_youtube_video_narrow(q, t) ==
    LET r == fetch_try(t) IN
    IF ~r.raised THEN r
    ELSE IF r.exc = "Timeout" THEN Return(FetchTimeout)
    ELSE IF r.exc \in {"ConnectionError", "HTTPError"} THEN Return(FetchError)
    ELSE r

fetch_youtube_video(q, t) ==
    LET r == fetch_try(t) IN
    IF ~r.raised THEN r
    ELSE IF r.exc = "Timeout" THEN Return(FetchTimeout)
    ELSE Return(FetchError)

----------------------------------------------------------------------------
(* Fence stripping *)

Backtick == "BT"
Json == "json"
Letter == "a"
Space == " "
Newline == "\n"
Quote == "'"

Alphabet == {Backtick, Json, Letter, Space, Newline, Quote}
Whitespace == {Space, Newline}

Strings(n) == UNION {[1 .. m -> Alphabet] : m \in 0 .. n}

Drop(s, n) == SubSeq(s, n + 1, Len(s))
DropLast(s, n) == SubSeq(s, 1, Len(s) - n)

RECURSIVE lstrip(_)
lstrip(s) == IF s # <<>> /\ Head(s) \in Whitespace THEN lstrip(Tail(s)) ELSE s

RECURSIVE rstrip(_)
rstrip(s) == IF s # <<>> /\ s[Len(s)] \in Whitespace THEN rstrip(DropLast(s, 1)) ELSE s

strip(s) == rstrip(lstrip(s))

Fence == <<Backtick, Backtick, Backtick>>
FenceJson == <<Backtick, Backtick, Backtick, Json>>
Quotes == <<Quote, Quote, Quote>>

startswith(s, p) == Len(s) >= Len(p) /\ SubSeq(s, 1, Len(p)) = p
endswith(s, p) == Len(s) >= Len(p) /\ SubSeq(s, Len(s) - Len(p) + 1, Len(s)) = p
MatchAt(s, p, k) == k + Len(p) - 1 <= Len(s) /\ SubSeq(s, k, k + Len(p) - 1) = p

(* ^ and $ under re.MULTILINE *)
LineStart(s, k) == k = 1 \/ s[k - 1] = Newline
LineEnd(s, k) == k = Len(s) + 1 \/ s[k] = Newline

(* re.sub of the pattern (line-start fence+json | fence line-end) under    *)
(* re.MULTILINE: leftmost matches, the first alternative tried first, the  *)
(* scan resuming after each match                                          *)
RECURSIVE re_sub(_, _)
re_sub(s, k) ==
    IF k > Len(s) THEN <<>>
    ELSE IF LineStart(s, k) /\ MatchAt(s, FenceJson, k) THEN re_sub(s, k + Len(FenceJson))
    ELSE IF MatchAt(s, Fence, k) /\ LineEnd(s, k + Len(Fence)) THEN re_sub(s, k + Len(Fence))
    ELSE <<s[k]>> \o re_sub(s, k + 1)

clean_regex(s) == strip(re_sub(s, 1))

(* lines 449-458 and 505-514 *)
clean_prefix(s) ==
    LET t0 == strip(s)
        t1 == IF startswith(t0, FenceJson) THEN Drop(t0, Len(FenceJson)) ELSE t0
        t2 == IF endswith(t1, Fence) THEN DropLast(t1, Len(Fence)) ELSE t1
        t3 == IF startswith(t2, Quotes) THEN Drop(t2, Len(Quotes)) ELSE t2
        t4 == IF endswith(t3, Quotes) THEN DropLast(t3, Len(Quotes)) ELSE t3
    IN t4

----------------------------------------------------------------------------
(* Values of the variables an endpoint does not use *)

NoTransport == [kind |-> "none", status |-> 0, body |-> NoBody]

LevelIdle == score = 0 /\ time_taken = 1 /\ level = "none"
VideoIdle == query = "" /\ transport = NoTransport /\ video = Return(NotFetched)
CleanIdle == text = <<>> /\ cleaned = <<>> /\ recleaned = <<>>
FileIdle == filename = <<>> /\ download = 0 /\ parser = "none" /\ content = <<>>
CourseIdle ==
    /\ request_units = 0 /\ course_units = <<>> /\ i = 0
    /\ upc = <<>> /\ unit_data = <<>> /\ detailed_units = <<>>
    /\ calls = <<>> /\ trace = <<>> /\ structure = "none" /\ response_units = <<>>
    /\ course_structure = <<>> /\ response_fields = <<>>
    /\ ready = <<>> /\ running = 0
NoResponse == status = 0 /\ detail = <<>> /\ handler_calls = 0

LevelVars == <<score, time_taken, level>>
VideoVars == <<query, transport, video>>
CleanVars == <<text, cleaned, recleaned>>
FileVars == <<filename, download, parser, content>>
CourseVars == <<request_units, course_units, i, upc, unit_data, detailed_units,
                calls, trace, structure, response_units, course_structure,
                response_fields, ready, running>>

----------------------------------------------------------------------------
(* /predict-level *)

InitLevel ==
    /\ endpoint = "predict_level" /\ pc = "start" /\ NoResponse
    /\ score \in QuizScores /\ time_taken \in QuizTimes /\ level = "none"
    /\ VideoIdle /\ CleanIdle /\ FileIdle /\ CourseIdle

predict_level ==
    /\ endpoint = "predict_level" /\ pc = "start"
    /\ level' = predict_user_level(score, time_taken)
    /\ status' = 200
    /\ pc' = "done"
    /\ UNCHANGED <<endpoint, detail, score, time_taken, handler_calls>>
    /\ UNCHANGED <<VideoVars, CleanVars, FileVars, CourseVars>>

NextLevel == predict_level
SpecLevel == InitLevel /\ [][NextLevel]_vars

----------------------------------------------------------------------------
(* fetch_youtube_video, called on its own *)

InitVideo ==
    /\ endpoint = "fetch_youtube_video" /\ pc = "start" /\ NoResponse
    /\ query \in Queries /\ transport \in Transports /\ video = Return(NotFetched)
    /\ LevelIdle /\ CleanIdle /\ FileIdle /\ CourseIdle

FetchVideo ==
    /\ endpoint = "fetch_youtube_video" /\ pc = "start"
    /\ video' = fetch_youtube_video(query, transport)
    /\ pc' = "done"
    /\ UNCHANGED <<endpoint, status, detail, query, transport, handler_calls>>
    /\ UNCHANGED <<LevelVars, CleanVars, FileVars, CourseVars>>

NextVideo == FetchVideo
SpecVideo == InitVideo /\ [][NextVideo]_vars

----------------------------------------------------------------------------
(* The cleanup of a model reply, applied once and then to its own result *)

Cleaners == {"generate_unit_content", "recommend_course"}

clean(f, s) == IF f = "generate_unit_content" THEN clean_regex(s) ELSE clean_prefix(s)

InitClean ==
    /\ endpoint \in Cleaners /\ pc = "start" /\ NoResponse
    /\ text \in Strings(MaxLen) /\ cleaned = <<>> /\ recleaned = <<>>
    /\ LevelIdle /\ VideoIdle /\ FileIdle /\ CourseIdle

Clean ==
    /\ endpoint \in Cleaners /\ pc = "start"
    /\ cleaned' = clean(endpoint, text)
    /\ pc' = "cleaned"
    /\ UNCHANGED <<endpoint, status, detail, text, recleaned, handler_calls>>
    /\ UNCHANGED <<LevelVars, VideoVars, FileVars, CourseVars>>

CleanAgain ==
    /\ endpoint \in Cleaners /\ pc = "cleaned"
    /\ recleaned' = clean(endpoint, cleaned)
    /\ pc' = "done"
    /\ UNCHANGED <<endpoint, status, detail, text, cleaned, handler_calls>>
    /\ UNCHANGED <<LevelVars, VideoVars, FileVars, CourseVars>>

NextClean == Clean \/ CleanAgain
SpecClean == InitClean /\ [][NextClean]_vars

----------------------------------------------------------------------------
(* /detect-domain-from-file *)

Filenames == {<<"notes", "txt">>, <<"a", "docx">>, <<"a", "PDF">>, <<"a", "pptx">>,
              <<"a", "tar", "gz">>, <<"pdf">>, <<"a", "pdf", "bak">>}
Supported == {"docx", "pdf", "pptx"}
Contents == UNION {[1 .. m -> {Space, Newline, Letter}] : m \in 0 .. MaxContent}
DownloadCodes == {200, 404}
ModelReplies == {"error", "garbage", "json"}

lower(p) == IF p = "PDF" THEN "pdf" ELSE p

(* filename.split(".")[-1].lower() *)
file_extension(fn) == lower(fn[Len(fn)])

HTTPException(c, d) == [kind |-> "HTTPException", status |-> c, detail |-> d]
Exception(d) == [kind |-> "Exception", status |-> "", detail |-> d]

(* str(e) *)
ExceptionText(e) == IF e.kind = "HTTPException" THEN <<e.status, e.detail>> ELSE <<e.detail>>

(* lines 528-529: except Exception as e: raise HTTPException(500, str(e)) *)
file_except(e) == [status |-> 500, detail |-> ExceptionText(e)]

DownloadFailed == HTTPException("400", "Failed to download file.")
UnsupportedType == HTTPException("400", "Unsupported file type.")
EmptyContent == HTTPException("400", "Extracted content is empty.")
NotJson == HTTPException("500", "Gemini response is not in valid JSON format.")

InitFile ==
    /\ endpoint = "detect_domain_from_file" /\ pc = "start" /\ NoResponse
    /\ filename \in Filenames /\ download \in DownloadCodes
    /\ parser \in {"ok", "corrupt"} /\ content \in Contents
    /\ LevelIdle /\ VideoIdle /\ CleanIdle /\ CourseIdle

FileRespond(r) ==
    /\ status' = r.status
    /\ detail' = r.detail
    /\ pc' = "done"

FileDownload ==
    /\ endpoint = "detect_domain_from_file" /\ pc = "start"
    /\ IF download # 200
          THEN FileRespond(file_except(DownloadFailed))
          ELSE pc' = "extract" /\ UNCHANGED <<status, detail>>
    /\ UNCHANGED <<endpoint, handler_calls>>
    /\ UNCHANGED <<LevelVars, VideoVars, CleanVars, FileVars, CourseVars>>

FileExtract ==
    /\ endpoint = "detect_domain_from_file" /\ pc = "extract"
    /\ IF file_extension(filename) \notin Supported
          THEN FileRespond(file_except(UnsupportedType))
       ELSE IF parser = "corrupt"
          THEN FileRespond(file_except(Exception("document library error")))
       ELSE IF strip(content) = <<>>
          THEN FileRespond(file_except(EmptyContent))
       ELSE pc' = "model" /\ UNCHANGED <<status, detail>>
    /\ UNCHANGED <<endpoint, handler_calls>>
    /\ UNCHANGED <<LevelVars, VideoVars, CleanVars, FileVars, CourseVars>>

FileDetect(reply) ==
    /\ endpoint = "detect_domain_from_file" /\ pc = "model"
    /\ handler_calls' = handler_calls + 1
    /\ IF reply = "error"
          THEN FileRespond(file_except(Exception("model error")))
       ELSE IF reply = "garbage"
          THEN FileRespond(file_except(NotJson))
       ELSE FileRespond([status |-> 200, detail |-> <<>>])
    /\ UNCHANGED endpoint
    /\ UNCHANGED <<LevelVars, VideoVars, CleanVars, FileVars, CourseVars>>

NextFile == FileDownload \/ FileExtract \/ \E reply \in ModelReplies : FileDetect(reply)
SpecFile == InitFile /\ [][NextFile]_vars

----------------------------------------------------------------------------
(* /generate-course and /generate-question: replies and unit dicts *)

CourseEndpoints == {"generate_course", "generate_question"}
Slots == 1 .. MaxStubs

(* a stub of the skeleton is TRUE when it carries a unitTitle *)
Skeletons == UNION {[1 .. m -> BOOLEAN] : m \in 0 .. MaxStubs}

(* the fields of the skeleton other than units: the keys the prompt asks *)
(* for, or a dict that lacks one of them and brings one of its own       *)
TemplateKeys == {"courseTitle", "difficultyLevel", "description", "prerequisites",
                 "learningOutcomes", "overview", "assessmentMethods"}
NoFields == <<>>
SkeletonFields ==
    {[k \in TemplateKeys |-> "as replied"],
     [k \in (TemplateKeys \ {"overview"}) \cup {"notes"} |-> "as replied"]}

StructureReplies ==
    {[kind |-> k, units |-> <<>>, fields |-> NoFields] :
        k \in {"error", "garbage", "no_units"}}
    \cup [kind : {"course"}, units : Skeletons, fields : SkeletonFields]

(* a unit skeleton reply: the call raises, the text is not JSON, the JSON *)
(* lacks keys the next step reads, or it has the keys asked for           *)
UnitReplies == {"error", "garbage", "partial", "json"}

FullKeys == {"unitTitle", "learningObjectives", "topicsCovered", "resources",
             "estimatedDuration"}
ContentPromptKeys == {"unitTitle", "topicsCovered", "learningObjectives"}
McqPromptKeys == {"unitTitle"}

NoUnit == [keys |-> {}, youtube_video_url |-> NotFetched]
NoCalls == [unit |-> 0, content |-> 0, mcq |-> 0, video |-> 0]

(* json.loads of the cleaned reply, once the call has returned *)
parsed(reply) == reply \in {"partial", "json"}

(* the keys of the unit dict a parsed unit skeleton reply gives *)
unit_keys(f, reply) ==
    IF f = "generate_course"
        THEN IF reply = "json" THEN FullKeys ELSE {"unitTitle"}
        ELSE IF reply = "json" THEN {"unitTitle"} ELSE {}

(* a pipeline step that issues its call again when the call failed *)
attempts_retry(reply) == IF reply = "error" THEN 2 ELSE 1

(* model.generate_content is called once per step, inside no loop *)
attempts(reply) == 1

(* a content step whose failure is swallowed *)
content_raises_never(reply) == FALSE

(* generate_unit_content, lines 122-132: any failure becomes HTTPException *)
content_raises(reply) == reply # "json"

Step(name, reply) == [step |-> name, reply |-> reply]

(* lines 337-339 and 394-396: except Exception as e: raise HTTPException(500, str(e)) *)
course_except(e) == [status |-> 500, detail |-> ExceptionText(e)]

NoUnitDetails == HTTPException("500", "Failed to generate any unit details")

(* a response assembled anew from the keys of the prompt's template *)
replace_units_rebuilt(cs, us) ==
    [fields |-> [k \in TemplateKeys |-> IF k \in DOMAIN cs THEN cs[k] ELSE ""],
     units |-> us]

(* lines 334-335 and 382-392: course_structure["units"] is assigned and the *)
(* same dict is returned                                                    *)
replace_units(cs, us) == [fields |-> cs, units |-> us]

Result(k) == [stub |-> k, keys |-> unit_data[k].keys,
              youtube_video_url |-> unit_data[k].youtube_video_url,
              failed |-> upc[k] # "returned"]

InitCourse ==
    /\ endpoint \in CourseEndpoints /\ pc = "start" /\ NoResponse
    /\ request_units \in 1 .. MaxRequestUnits
    /\ course_units = <<>> /\ i = 0
    /\ upc = [k \in Slots |-> "none"]
    /\ unit_data = [k \in Slots |-> NoUnit]
    /\ detailed_units = <<>>
    /\ calls = [k \in Slots |-> NoCalls]
    /\ trace = [k \in Slots |-> <<>>]
    /\ structure = "none" /\ response_units = <<>>
    /\ course_structure = NoFields /\ response_fields = NoFields
    /\ ready = <<>> /\ running = 0
    /\ LevelIdle /\ VideoIdle /\ CleanIdle /\ FileIdle

Others == <<LevelVars, VideoVars, CleanVars, FileVars>>

CourseRespond(r) ==
    /\ status' = r.status
    /\ detail' = r.detail
    /\ pc' = "done"

(* lines 310-312 and 367-369: the skeleton call, its cleanup and json.loads; *)
(* line 315 / 377 reads course_structure["units"]                            *)
generate_structure(reply) ==
    /\ endpoint \in CourseEndpoints /\ pc = "start"
    /\ handler_calls' = handler_calls + attempts(reply.kind)
    /\ structure' = reply.kind
    /\ IF reply.kind # "course"
          THEN /\ CourseRespond(course_except(Exception(reply.kind)))
               /\ UNCHANGED <<course_units, course_structure, i>>
          ELSE /\ course_units' = reply.units
               /\ course_structure' = reply.fields
               /\ i' = 1
               /\ pc' = IF endpoint = "generate_course" THEN "loop" ELSE "launch"
               /\ UNCHANGED <<status, detail>>
    /\ UNCHANGED <<endpoint, request_units, upc, unit_data, detailed_units, calls,
                   trace, response_units, response_fields, ready, running, Others>>
----------------------------------------------------------------------------
(* /generate-course: the loop of lines 314-335 and get_unit_details *)

Looping == endpoint = "generate_course" /\ pc = "loop"

(* lines 317-322: the stub's title is read and get_unit_details is entered *)
CourseEnter ==
    /\ Looping /\ i <= Len(course_units) /\ course_units[i] /\ upc[i] = "none"
    /\ upc' = [upc EXCEPT ![i] = "unit_call"]
    /\ UNCHANGED <<endpoint, pc, status, detail, handler_calls, request_units,
                   course_units, i, unit_data, detailed_units, calls, trace,
                   structure, response_units, ready, running, Others>>
    /\ UNCHANGED <<course_structure, response_fields>>

(* lines 318, 324-325: unit["unitTitle"] raises KeyError in the try, and again *)
(* in the handler's print, so the error leaves the loop for line 337           *)
CourseStubError ==
    /\ Looping /\ i <= Len(course_units) /\ ~course_units[i] /\ upc[i] = "none"
    /\ CourseRespond(course_except(Exception("KeyError: unitTitle")))
    /\ UNCHANGED <<endpoint, handler_calls, request_units, course_units, i, upc,
                   unit_data, detailed_units, calls, trace, structure,
                   response_units, ready, running, Others>>
    /\ UNCHANGED <<course_structure, response_fields>>

(* lines 152-159: the unit skeleton call of get_unit_details *)
UnitSkeleton(k, reply) ==
    /\ endpoint = "generate_course" /\ upc[k] = "unit_call" /\ running = 0
    /\ calls' = [calls EXCEPT ![k].unit = @ + attempts(reply)]
    /\ trace' = [trace EXCEPT ![k] = Append(@, Step("unit", reply))]
    /\ IF parsed(reply)
          THEN /\ unit_data' = [unit_data EXCEPT ![k].keys = unit_keys(endpoint, reply)]
               /\ upc' = [upc EXCEPT ![k] = "content_call"]
          ELSE /\ upc' = [upc EXCEPT ![k] = "raised"]
               /\ UNCHANGED unit_data
    /\ UNCHANGED <<endpoint, pc, status, detail, handler_calls, request_units,
                   course_units, i, detailed_units, structure, response_units,
                   ready, running, Others>>
    /\ UNCHANGED <<course_structure, response_fields>>

(* lines 161-162 and generate_unit_content: the prompt reads the unit dict *)
(* (KeyError before any call), then the content call                       *)
UnitContent(k, reply) ==
    /\ endpoint = "generate_course" /\ upc[k] = "content_call" /\ running = 0
    /\ IF ~(ContentPromptKeys \subseteq unit_data[k].keys)
          THEN /\ upc' = [upc EXCEPT ![k] = "raised"]
               /\ UNCHANGED <<calls, trace, unit_data>>
          ELSE /\ calls' = [calls EXCEPT ![k].content = @ + attempts(reply)]
               /\ trace' = [trace EXCEPT ![k] = Append(@, Step("content", reply))]
               /\ IF content_raises(reply)
                     THEN /\ upc' = [upc EXCEPT ![k] = "raised"]
                          /\ UNCHANGED unit_data
                     ELSE /\ upc' = [upc EXCEPT ![k] = "video_call"]
                          /\ unit_data' = [unit_data EXCEPT
                                ![k].keys = @ \cup {"detailedContent"}]
    /\ UNCHANGED <<endpoint, pc, status, detail, handler_calls, request_units,
                   course_units, i, detailed_units, structure, response_units,
                   ready, running, Others>>
    /\ UNCHANGED <<course_structure, response_fields>>

(* lines 164-168: the video lookup and the return *)
UnitVideo(k, q, t) ==
    /\ endpoint = "generate_course" /\ upc[k] = "video_call" /\ running = 0
    /\ calls' = [calls EXCEPT ![k].video = @ + 1]
    /\ LET r == fetch_youtube_video(q, t) IN
       /\ trace' = [trace EXCEPT ![k] =
              Append(@, Step("video", IF r.raised THEN "error" ELSE "json"))]
       /\ IF r.raised
             THEN /\ upc' = [upc EXCEPT ![k] = "raised"]
                  /\ UNCHANGED unit_data
             ELSE /\ upc' = [upc EXCEPT ![k] = "returned"]
                  /\ unit_data' = [unit_data EXCEPT
                        ![k].keys = @ \cup {"youtube_video_url"},
                        ![k].youtube_video_url = r.value]
    /\ UNCHANGED <<endpoint, pc, status, detail, handler_calls, request_units,
                   course_units, i, detailed_units, structure, response_units,
                   ready, running, Others>>
    /\ UNCHANGED <<course_structure, response_fields>>

(* lines 323-326: append the unit returned, or log the failure and continue *)
CourseCollect ==
    /\ Looping /\ i <= Len(course_units) /\ upc[i] \in {"returned", "raised"}
    /\ detailed_units' = IF upc[i] = "returned"
                            THEN Append(detailed_units, Result(i))
                            ELSE detailed_units
    /\ i' = i + 1
    /\ UNCHANGED <<endpoint, pc, status, detail, handler_calls, request_units,
                   course_units, upc, unit_data, calls, trace, structure,
                   response_units, ready, running, Others>>
    /\ UNCHANGED <<course_structure, response_fields>>

(* lines 328-335 *)
CourseFinish ==
    /\ Looping /\ i > Len(course_units)
    /\ IF detailed_units = <<>>
          THEN /\ CourseRespond(course_except(NoUnitDetails))
               /\ UNCHANGED <<response_units, response_fields>>
          ELSE /\ CourseRespond([status |-> 200, detail |-> <<>>])
               /\ response_units' = replace_units(course_structure, detailed_units).units
               /\ response_fields' = replace_units(course_structure, detailed_units).fields
    /\ UNCHANGED <<course_structure, endpoint, handler_calls, request_units, course_units, i, upc,
                   unit_data, detailed_units, calls, trace, structure, ready,
                   running, Others>>

NextSequential ==
    \/ CourseEnter
    \/ CourseStubError
    \/ \E k \in Slots, reply \in UnitReplies : UnitSkeleton(k, reply)
    \/ \E k \in Slots, reply \in ModelReplies : UnitContent(k, reply)
    \/ \E k \in Slots, q \in Queries, t \in Transports : UnitVideo(k, q, t)
    \/ CourseCollect
    \/ CourseFinish

----------------------------------------------------------------------------
(* /generate-question: lines 371-392, asyncio.gather over                  *)
(* get_unit_details_with_mcqs.  The event loop runs one task at a time; a  *)
(* task keeps the thread until it awaits a pending future or ends.  The    *)
(* pipelines call model.generate_content, a synchronous call, and await    *)
(* only a coroutine that itself never awaits a future, so a task started   *)
(* runs to its end without releasing the thread.                           *)

Handler == 0
Nobody == -1
Finished == {"returned", "raised"}

RECURSIVE Range(_, _)
Range(a, b) == IF a > b THEN <<>> ELSE <<a>> \o Range(a + 1, b)

(* line 377: unit["unitTitle"] raises KeyError while the list is built, *)
(* before gather is reached                                             *)
QuestionStubError ==
    /\ endpoint = "generate_question" /\ pc = "launch"
    /\ \E k \in 1 .. Len(course_units) : ~course_units[k]
    /\ CourseRespond(course_except(Exception("KeyError: unitTitle")))
    /\ UNCHANGED <<endpoint, handler_calls, request_units, course_units, i, upc,
                   unit_data, detailed_units, calls, trace, structure,
                   response_units, ready, running, Others>>
    /\ UNCHANGED <<course_structure, response_fields>>

(* lines 371-380: gather wraps every coroutine in a task, in order, and the  *)
(* handler awaits the batch (no suspension when there is nothing to wait for) *)
QuestionLaunch ==
    /\ endpoint = "generate_question" /\ pc = "launch"
    /\ \A k \in 1 .. Len(course_units) : course_units[k]
    /\ upc' = [k \in Slots |-> IF k <= Len(course_units) THEN "ready" ELSE upc[k]]
    /\ ready' = Range(1, Len(course_units))
    /\ running' = IF course_units = <<>> THEN Handler ELSE Nobody
    /\ pc' = "gather"
    /\ UNCHANGED <<endpoint, status, detail, handler_calls, request_units,
                   course_units, i, unit_data, detailed_units, calls, trace,
                   structure, response_units, Others>>
    /\ UNCHANGED <<course_structure, response_fields>>

(* the event loop starts the next scheduled task once the thread is free *)
TaskStart(k) ==
    /\ endpoint = "generate_question" /\ pc = "gather"
    /\ running = Nobody /\ ready # <<>> /\ k = Head(ready)
    /\ running' = k
    /\ ready' = Tail(ready)
    /\ upc' = [upc EXCEPT ![k] = "unit_call"]
    /\ UNCHANGED <<endpoint, pc, status, detail, handler_calls, request_units,
                   course_units, i, unit_data, detailed_units, calls, trace,
                   structure, response_units, Others>>
    /\ UNCHANGED <<course_structure, response_fields>>

(* lines 235-237: the unit skeleton call of get_unit_details_with_mcqs *)
McqSkeleton(k, reply) ==
    /\ endpoint = "generate_question" /\ upc[k] = "unit_call" /\ running = k
    /\ calls' = [calls EXCEPT ![k].unit = @ + attempts(reply)]
    /\ trace' = [trace EXCEPT ![k] = Append(@, Step("unit", reply))]
    /\ IF parsed(reply)
          THEN /\ unit_data' = [unit_data EXCEPT ![k].keys = unit_keys(endpoint, reply)]
               /\ upc' = [upc EXCEPT ![k] = "mcq_call"]
               /\ UNCHANGED running
          ELSE /\ upc' = [upc EXCEPT ![k] = "raised"]
               /\ running' = Nobody
               /\ UNCHANGED unit_data
    /\ UNCHANGED <<endpoint, pc, status, detail, handler_calls, request_units,
                   course_units, i, detailed_units, structure, response_units,
                   ready, Others>>
    /\ UNCHANGED <<course_structure, response_fields>>

(* lines 239-242 and generate_mcqs: the prompt reads unitTitle (KeyError *)
(* before any call), then the MCQ call; the task ends either way         *)
McqGenerate(k, reply) ==
    /\ endpoint = "generate_question" /\ upc[k] = "mcq_call" /\ running = k
    /\ IF ~(McqPromptKeys \subseteq unit_data[k].keys)
          THEN /\ upc' = [upc EXCEPT ![k] = "raised"]
               /\ UNCHANGED <<calls, trace, unit_data>>
          ELSE /\ calls' = [calls EXCEPT ![k].mcq = @ + attempts(reply)]
               /\ trace' = [trace EXCEPT ![k] = Append(@, Step("mcq", reply))]
               /\ IF content_raises(reply)
                     THEN /\ upc' = [upc EXCEPT ![k] = "raised"]
                          /\ UNCHANGED unit_data
                     ELSE /\ upc' = [upc EXCEPT ![k] = "returned"]
                          /\ unit_data' = [unit_data EXCEPT
                                ![k].keys = @ \cup {"assessment"}]
    /\ running' = Nobody
    /\ UNCHANGED <<endpoint, pc, status, detail, handler_calls, request_units,
                   course_units, i, detailed_units, structure, response_units,
                   ready, Others>>
    /\ UNCHANGED <<course_structure, response_fields>>

(* a gather without return_exceptions: the first failure is raised to the *)
(* handler in place of the list                                           *)
gather_raising(n) ==
    [raised |-> \E k \in 1 .. n : upc[k] = "raised",
     results |-> [k \in 1 .. n |-> Result(k)]]

(* line 380: gather of the unit tasks with return_exceptions=True: one   *)
(* entry per task, in the order of the tasks, an exception for a failure *)
gather(n) ==
    [raised |-> FALSE, results |-> [k \in 1 .. n |-> Result(k)]]

RECURSIVE not_exceptions(_)
not_exceptions(rs) ==
    IF rs = <<>> THEN <<>>
    ELSE IF Head(rs).failed THEN not_exceptions(Tail(rs))
    ELSE <<Head(rs)>> \o not_exceptions(Tail(rs))

(* lines 380-392: the batch is done, the handler resumes and filters it *)
QuestionCollect ==
    /\ endpoint = "generate_question" /\ pc = "gather"
    /\ running \in {Nobody, Handler} /\ ready = <<>>
    /\ \A k \in 1 .. Len(course_units) : upc[k] \in Finished
    /\ running' = Handler
    /\ LET g == gather(Len(course_units)) IN
       IF g.raised
          THEN /\ CourseRespond(course_except(Exception("unit task failed")))
               /\ UNCHANGED <<detailed_units, response_units, response_fields>>
          ELSE /\ detailed_units' = g.results
               /\ IF not_exceptions(g.results) = <<>>
                     THEN /\ CourseRespond(course_except(NoUnitDetails))
                          /\ UNCHANGED <<response_units, response_fields>>
                     ELSE /\ CourseRespond([status |-> 200, detail |-> <<>>])
                          /\ response_units' =
                                replace_units(course_structure, not_exceptions(g.results)).units
                          /\ response_fields' =
                                replace_units(course_structure, not_exceptions(g.results)).fields
    /\ UNCHANGED <<course_structure, endpoint, handler_calls, request_units, course_units, i, upc,
                   unit_data, calls, trace, structure, ready, Others>>

NextConcurrent ==
    \/ QuestionStubError
    \/ QuestionLaunch
    \/ \E k \in Slots : TaskStart(k)
    \/ \E k \in Slots, reply \in UnitReplies : McqSkeleton(k, reply)
    \/ \E k \in Slots, reply \in ModelReplies : McqGenerate(k, reply)
    \/ QuestionCollect

NextCourse ==
    \/ \E reply \in StructureReplies : generate_structure(reply)
    \/ NextSequential
    \/ NextConcurrent

SpecCourse == InitCourse /\ [][NextCourse]_vars

----------------------------------------------------------------------------
(* Claims about the pure functions *)

Levels == {"Beginner", "Intermediate", "Advanced"}

\* C1: predict_user_level is total on score in [0,9], time_taken > 0 and gives
\* Advanced when score >= 7 and time_taken <= 80, Intermediate when
\* 4 <= score < 7 whatever the time, and Beginner otherwise (score < 4, or
\* score >= 7 with time_taken > 80).
C1_LevelRule ==
    (endpoint = "predict_level" /\ pc = "done") =>
        /\ level \in Levels
        /\ status = 200
        /\ (score >= 7 * Resolution /\ time_taken <= 80 * Resolution) => level = "Advanced"
        /\ (score >= 4 * Resolution /\ score < 7 * Resolution) => level = "Intermediate"
        /\ score < 4 * Resolution => level = "Beginner"
        /\ (score >= 7 * Resolution /\ time_taken > 80 * Resolution) => level = "Beginner"

C1_SlowHighScore ==
    /\ endpoint = "predict_level" /\ pc = "done"
    /\ score >= 7 * Resolution /\ time_taken = 80 * Resolution + 1
    /\ level = "Beginner"

Is2xx(c) == c >= 200 /\ c < 300

C5_Idempotent == pc = "done" /\ endpoint \in Cleaners => recleaned = cleaned

C5_RegexIdempotent ==
    pc = "done" /\ endpoint = "generate_unit_content" => recleaned = cleaned

C5_PrefixIdempotent ==
    pc = "done" /\ endpoint = "recommend_course" => recleaned = cleaned

\* a reply with no fence or quote marker left after one cleanup is a fixed point
HasMarker(s) == \E k \in 1 .. Len(s) : MatchAt(s, Fence, k) \/ MatchAt(s, Quotes, k)

C5_CleanIsFixed ==
    pc = "done" /\ endpoint \in Cleaners /\ ~HasMarker(cleaned) /\ strip(cleaned) = cleaned
        => recleaned = cleaned

----------------------------------------------------------------------------
(* Claims about /detect-domain-from-file *)

InText(d, t) == \E k \in 1 .. Len(t) : t[k] = d

\* C3: a downloaded file with an extension other than docx, pdf, pptx ends the
\* request with the unsupported-type failure as status 400 whatever its
\* content, a supported file whose text is empty or whitespace ends it with
\* the empty-content failure as status 400, and the model is called in
\* neither case.
C3_PolicyFailuresAre400 ==
    (endpoint = "detect_domain_from_file" /\ pc = "done" /\ download = 200) =>
        /\ file_extension(filename) \notin Supported =>
              /\ status = 400
              /\ InText("Unsupported file type.", detail)
              /\ handler_calls = 0
        /\ (file_extension(filename) \in Supported /\ parser = "ok" /\ strip(content) = <<>>) =>
              /\ status = 400
              /\ InText("Extracted content is empty.", detail)
              /\ handler_calls = 0

\* what the handler does keep of C3: the two failures carry their own details
\* and precede any model call
C3_PolicyFailuresDistinct ==
    (endpoint = "detect_domain_from_file" /\ pc = "done" /\ download = 200) =>
        /\ file_extension(filename) \notin Supported =>
              /\ InText("Unsupported file type.", detail)
              /\ ~InText("Extracted content is empty.", detail)
              /\ handler_calls = 0
        /\ (file_extension(filename) \in Supported /\ parser = "ok" /\ strip(content) = <<>>) =>
              /\ InText("Extracted content is empty.", detail)
              /\ ~InText("Unsupported file type.", detail)
              /\ handler_calls = 0

----------------------------------------------------------------------------
(* Claims about the course endpoints *)

K == Len(course_units)
Returned == {k \in 1 .. K : upc[k] = "returned"}
Launched == \E k \in 1 .. K : upc[k] # "none"
AllTitled == \A k \in 1 .. K : course_units[k]
StubsOf(us) == {us[n].stub : n \in 1 .. Len(us)}

RECURSIVE SumCalls(_, _)
SumCalls(k, f) == IF k = 0 THEN 0 ELSE calls[k][f] + SumCalls(k - 1, f)

ModelCalls == handler_calls + SumCalls(MaxStubs, "unit") + SumCalls(MaxStubs, "content")
              + SumCalls(MaxStubs, "mcq")
VideoCalls == SumCalls(MaxStubs, "video")

\* C2: a successful /generate-course response for units = N carries between
\* 1 and N units.
C2_LengthWithinRequest ==
    (endpoint = "generate_course" /\ pc = "done" /\ status = 200) =>
        /\ Len(response_units) >= 1
        /\ Len(response_units) <= request_units

\* C2, second half: /generate-course ends with status 500 only if every unit
\* pipeline failed.
C2_HardFailureOnlyIfAllFail ==
    (endpoint = "generate_course" /\ pc = "done" /\ status = 500) => Returned = {}

\* what the handler does bound: the units returned are at least one and at
\* most the stubs of the skeleton
C2_LengthWithinSkeleton ==
    (endpoint = "generate_course" /\ pc = "done" /\ status = 200) =>
        /\ Len(response_units) >= 1
        /\ Len(response_units) <= K

\* C6: in /generate-course, once the skeleton has parsed, a unit whose
\* pipeline fails is skipped without aborting the course: the pipelines of all
\* later stubs still run, the response holds exactly the units whose pipeline
\* succeeded, and the request fails when every pipeline failed.
C6_FailureIsolated ==
    (endpoint = "generate_course" /\ pc = "done" /\ structure = "course") =>
        /\ \A k \in 1 .. K : upc[k] = "raised" =>
              \A j \in (k + 1) .. K : course_units[j] => upc[j] \in Finished
        /\ Returned # {} => (status = 200 /\ StubsOf(response_units) = Returned)
        /\ Returned = {} => status = 500

\* C6 holds of the skeletons whose stubs all carry a unitTitle
C6_IsolatedWhenTitled ==
    (endpoint = "generate_course" /\ pc = "done" /\ structure = "course" /\ AllTitled) =>
        /\ \A k \in 1 .. K : upc[k] \in Finished
        /\ Returned # {} => (status = 200 /\ StubsOf(response_units) = Returned)
        /\ Returned = {} => status = 500

OwnSuccess(k) == trace[k] = <<Step("unit", "json"), Step("mcq", "json")>>

\* C7: in /generate-question the pipelines of all stubs are launched together
\* and joined as one batch; a pipeline's outcome rests on its own replies
\* alone, whatever its siblings did; every launched pipeline has an outcome
\* when the join returns; the units returned are exactly the non-failed
\* outcomes, and the request fails with 500 only when there is none.
C7_BatchIsolation ==
    endpoint = "generate_question" =>
        /\ Launched => \A k \in 1 .. K : upc[k] # "none"
        /\ (pc = "done" /\ Launched) => \A k \in 1 .. K : upc[k] \in Finished
        /\ \A k \in 1 .. K : upc[k] \in Finished =>
              (upc[k] = "returned" <=> OwnSuccess(k))
        /\ (pc = "done" /\ Launched) =>
              /\ Returned # {} => (status = 200 /\ StubsOf(response_units) = Returned)
              /\ Returned = {} => status = 500

C7_FailureBesideSuccess ==
    /\ endpoint = "generate_question" /\ pc = "done" /\ status = 200
    /\ \E k \in 1 .. K, j \in 1 .. K :
          k < j /\ upc[k] = "raised" /\ upc[j] = "returned" /\ j \in StubsOf(response_units)

Waiting == {"unit_call", "mcq_call"}

\* C8: a wait on a model call is a suspension point: while a pipeline of
\* /generate-question waits on its model call the thread is released, so a
\* sibling that is scheduled can start (two pipelines in flight at once).
C8_WaitsYield ==
    endpoint = "generate_question" =>
        \A k \in 1 .. K : (upc[k] \in Waiting /\ ready # <<>>) =>
            ENABLED TaskStart(Head(ready))

\* what the handler's event loop does: at most one pipeline is in flight
C8_OneAtATime ==
    endpoint = "generate_question" =>
        /\ Cardinality({k \in 1 .. K : upc[k] \in Waiting}) <= 1
        /\ \A k \in 1 .. K : upc[k] \in Waiting => running = k

StepNames(tr) == [n \in 1 .. Len(tr) |-> tr[n].step]
IsPrefix(a, b) == Len(a) <= Len(b) /\ a = SubSeq(b, 1, Len(a))
Failing(st) == st.reply \in {"error", "garbage"}
VideoStrings == {WatchUrl(v) : v \in VideoIds} \cup {NoVideoFound, FetchTimeout, FetchError}

\* C9: get_unit_details runs the skeleton call, the content call and the video
\* lookup in that order; a failure of the skeleton or the content step ends
\* the pipeline with an error and no later step; a unit that is returned
\* carries detailedContent and youtube_video_url (a URL or a sentinel), and
\* the video lookup never fails the unit.
C9_NoPartialUnit ==
    endpoint = "generate_course" =>
        /\ \A k \in Slots :
              /\ IsPrefix(StepNames(trace[k]), <<"unit", "content", "video">>)
              /\ \A n \in 1 .. Len(trace[k]) :
                    Failing(trace[k][n]) => (n = Len(trace[k]) /\ upc[k] = "raised")
              /\ Len(trace[k]) = 3 => upc[k] = "returned"
              /\ upc[k] = "returned" =>
                    /\ Len(trace[k]) = 3
                    /\ {"detailedContent", "youtube_video_url"} \subseteq unit_data[k].keys
                    /\ unit_data[k].youtube_video_url \in VideoStrings
        /\ \A n \in 1 .. Len(detailed_units) :
              /\ {"detailedContent", "youtube_video_url"} \subseteq detailed_units[n].keys
              /\ upc[detailed_units[n].stub] = "returned"

C9_ContentFailureAndSentinel ==
    /\ endpoint = "generate_course" /\ pc = "done"
    /\ \E k \in 1 .. K, j \in 1 .. K :
          /\ upc[k] = "raised" /\ Len(trace[k]) = 2 /\ calls[k].video = 0
          /\ upc[j] = "returned" /\ unit_data[j].youtube_video_url = FetchTimeout
          /\ j \in StubsOf(response_units)

\* C10: no step calls the model more than once and no failed call is issued
\* again; with K stubs /generate-course makes at most 1 + 2K model calls and K
\* video lookups, /generate-question at most 1 + 2K model calls and no video
\* lookup; a skeleton failure ends the request after exactly one model call.
C10_NoRetry ==
    endpoint \in CourseEndpoints =>
        /\ handler_calls <= 1
        /\ \A k \in Slots :
              /\ calls[k].unit <= 1 /\ calls[k].content <= 1
              /\ calls[k].mcq <= 1 /\ calls[k].video <= 1
              /\ calls[k].unit = Cardinality({n \in 1 .. Len(trace[k]) : trace[k][n].step = "unit"})
              /\ calls[k].content + calls[k].mcq =
                    Cardinality({n \in 1 .. Len(trace[k]) : trace[k][n].step \in {"content", "mcq"}})
        /\ ModelCalls <= 1 + 2 * K
        /\ VideoCalls <= K
        /\ endpoint = "generate_question" => VideoCalls = 0
        /\ (pc = "done" /\ structure # "course") => (ModelCalls = 1 /\ status = 500)

C10_AllCallsMade ==
    /\ endpoint = "generate_course" /\ pc = "done"
    /\ K >= 2 /\ ModelCalls = 1 + 2 * K /\ VideoCalls = K - 1
    /\ \E k \in 1 .. K : upc[k] = "raised" /\ Failing(trace[k][Len(trace[k])])

\* C11: in both modes the units returned are the stubs whose pipeline
\* succeeded, in the order of the stubs, whatever the pattern of failures;
\* every other field of the parsed skeleton is returned as it was parsed,
\* units alone being replaced.
C11_OrderAndFrame ==
    (endpoint \in CourseEndpoints /\ pc = "done" /\ status = 200) =>
        /\ StubsOf(response_units) = Returned
        /\ Len(response_units) = Cardinality(Returned)
        /\ \A m \in 1 .. Len(response_units), n \in 1 .. Len(response_units) :
              m < n => response_units[m].stub < response_units[n].stub
        /\ response_fields = course_structure
        /\ course_structure \in SkeletonFields

C11_GapKeepsOrder ==
    /\ endpoint = "generate_question" /\ pc = "done" /\ status = 200
    /\ K = 3 /\ upc[1] = "returned" /\ upc[2] = "raised" /\ upc[3] = "returned"
    /\ Len(response_units) = 2
    /\ response_units[1].stub = 1 /\ response_units[2].stub = 3
    /\ "notes" \in DOMAIN response_fields

====
